---- MODULE Spec2Model ----
(***************************************************************************)
(* Lake-extent pipeline: the Predictor (feature stacking with the          *)
(* alignment cache, train, predict, save_model), the water-mask threshold  *)
(* of create_mask, the per-pixel prediction of predict, the grid that      *)
(* _coregister_raster writes, the geometry cleanup of create_mask, the     *)
(* download stage and the order of the pipeline's steps.                   *)
(*                                                                         *)
(* A file is known to the state by its name as a string; Chars gives the   *)
(* name as a sequence of characters, on which the string tests of the code *)
(* (lower().endswith, splitext, substring) are computed as the code        *)
(* computes them.                                                          *)
(***************************************************************************)
EXTENDS Integers, Sequences, FiniteSets, TLC

VARIABLES
    \* ---- Predictor (prediction.py) ----
    dir,        \* the files in processed/features
    masks,      \* years y for which processed/masks/<y>_mndwi_watermask_down.tif exists
    model,      \* self.model: [state |-> "unfitted" | "loaded" | "fitted", fit |-> years whose rows were fitted]
    saved,      \* content of processed/model: a value of model, or state "none"
    pc,         \* "idle", or "train" while train's loop over years is running
    years,      \* train: the list of years it was called with
    yi,         \* train: index in years of the next iteration
    X,          \* train: the years whose rows have been appended to X / y
    warned,     \* train: the years for which "No label found" was logged
    calls,      \* number of public operations started
    invokedEver,\* the source files _coregister_raster has been invoked for so far
    last,       \* the _stack_features call made by the last step (NoCall if it made none)
    res,        \* outcome of the last public operation
    XCols,      \* train: the stack (its files, in order) of each block appended to X
    Y,          \* train: the years whose labels have been appended to y
    fitCols,    \* the stacks of the blocks self.model was last fitted on
    nfeat,      \* self.model.n_features_in_ (0 while unfitted)
    badLabels,  \* years whose label raster has another number of pixels than the stacks
    \* ---- create_mask threshold (mndwi.py, extent.py) ----
    mA, mT, mOut,
    \* ---- predict, pixel level (prediction.py) ----
    pStack, pFitted, pOut,
    \* ---- _coregister_raster grid (prediction.py) ----
    aSrc, aRef, aOut,
    \* ---- create_mask geometry cleanup (mndwi.py, extent.py) ----
    gIn, gOut,
    \* ---- DataLoader.fetch_data and the OSM download (dataloader.py, extent.py) ----
    fIn, fOut,
    \* ---- the pipeline (pipeline.py, main.py) ----
    stage,      \* the --stage argument of main.py
    ppc,        \* index of the next step of the stage's program
    plog,       \* the events of the run so far, in order
    perr,       \* the exception that ended the run, or "none"
    dry,        \* years whose index raster has no pixel above the threshold
    inodata,    \* per year, the nodata value the index raster declares
    masksDir,   \* whether the directory processed/masks exists
    index,      \* years y for which processed/<y>_mndwi.tif exists
    lake,       \* per year, results/lake_<y>.shp: absent, stale (an earlier run's) or written
    maskf,      \* per year, processed/masks/<y>_mndwi_watermask.tif
    noWater     \* years for which "No water polygons found" was logged

trainVars == <<XCols, Y, fitCols, nfeat, badLabels>>
predVars == <<dir, masks, model, saved, pc, years, yi, X, warned, calls, invokedEver, last, res, trainVars>>
maskVars == <<mA, mT, mOut>>
pixVars == <<pStack, pFitted, pOut>>
alignVars == <<aSrc, aRef, aOut>>
vecVars == <<gIn, gOut>>
fetchVars == <<fIn, fOut>>
pipeVars == <<stage, ppc, plog, perr, dry, inodata, masksDir, index, lake, maskf, noWater>>
restVars == <<vecVars, fetchVars, pipeVars>>
vars == <<predVars, maskVars, pixVars, alignVars, restVars>>

(***************************************************************************)
(* Bounds of the model.                                                    *)
(***************************************************************************)
MaxFiles == 2
MaxCalls == 2
MaxYears == 2

(***************************************************************************)
(* Python string operations used by _stack_features.                       *)
(***************************************************************************)
UpperAlpha == <<"A","B","C","D","E","F","G","H","I","J","K","L","M","N","O","P","Q","R","S","T","U","V","W","X","Y","Z">>
LowerAlpha == <<"a","b","c","d","e","f","g","h","i","j","k","l","m","n","o","p","q","r","s","t","u","v","w","x","y","z">>
Digits == <<"0","1","2","3","4","5","6","7","8","9">>

LowerChar(c) ==
    IF \E i \in 1..Len(UpperAlpha) : UpperAlpha[i] = c
    THEN LowerAlpha[CHOOSE i \in 1..Len(UpperAlpha) : UpperAlpha[i] = c]
    ELSE c

\* str.lower()
Lower(s) == [i \in 1..Len(s) |-> LowerChar(s[i])]

\* str.endswith(suf)
EndsWith(s, suf) ==
    /\ Len(s) >= Len(suf)
    /\ SubSeq(s, Len(s) - Len(suf) + 1, Len(s)) = suf

\* sub in s
Contains(s, sub) ==
    \E i \in 1..(Len(s) - Len(sub) + 1) : SubSeq(s, i, i + Len(sub) - 1) = sub

\* str(n) for n >= 0
RECURSIVE Str(_)
Str(n) == IF n < 10 THEN <<Digits[n + 1]>> ELSE Str(n \div 10) \o <<Digits[(n % 10) + 1]>>

\* os.path.splitext(p): split at the last dot, unless only dots precede it
Splitext(p) ==
    LET dots == {i \in 1..Len(p) : p[i] = "."}
        d == IF dots = {} THEN 0 ELSE CHOOSE i \in dots : \A j \in dots : j <= i
    IN IF d = 0 \/ (\A j \in 1..(d - 1) : p[j] = ".")
       THEN <<p, <<>>>>
       ELSE <<SubSeq(p, 1, d - 1), SubSeq(p, d, Len(p))>>

TifExt == <<".","t","i","f">>
AlignedSuffix == <<"_","a","l","i","g","n","e","d">>

\* f"{basename}_aligned.tif"
AlignedPath(basename) == basename \o AlignedSuffix \o TifExt

\* range(1900, 2100)
YearLo == 1900
YearHi == 2100

\* not any(str(y) in basename for y in range(1900, 2100))
IsStatic(basename) == ~ \E y \in YearLo..(YearHi - 1) : Contains(basename, Str(y))

\* str(year) in basename
MatchesYear(basename, year) == Contains(basename, Str(year))

(***************************************************************************)
(* The files and years the model draws from.                               *)
(***************************************************************************)
Universe ==
    {"dem.TIF", "dem_aligned.tif", "d_2007.tif", "d_2007_aligned.tif",
     "d_2025_aligned.tif", "n.txt"}

\* the universe and every path _coregister_raster can create from it
AllPaths == Universe \cup {"n_aligned.tif"}

\* the characters of each name
Chars(f) ==
    CASE f = "dem.TIF"            -> <<"d","e","m",".","T","I","F">>
      [] f = "dem_aligned.tif"    -> <<"d","e","m","_","a","l","i","g","n","e","d",".","t","i","f">>
      [] f = "d_2007.tif"         -> <<"d","_","2","0","0","7",".","t","i","f">>
      [] f = "d_2007_aligned.tif" -> <<"d","_","2","0","0","7","_","a","l","i","g","n","e","d",".","t","i","f">>
      [] f = "d_2025_aligned.tif" -> <<"d","_","2","0","2","5","_","a","l","i","g","n","e","d",".","t","i","f">>
      [] f = "n_aligned.tif"      -> <<"n","_","a","l","i","g","n","e","d",".","t","i","f">>
      [] f = "n.txt"              -> <<"n",".","t","x","t">>

\* the file whose name has the characters cs
FileOf(cs) == CHOOSE f \in AllPaths : Chars(f) = cs

TargetYears == {2007, 2025, 2031}
LabelYears == {2007, 2025}

\* run_prediction: self.predictor.train([2007, 2019, 2025])
TrainYears == <<2007, 2019, 2025>>

\* the years _stack_features is called with
StackYears == TargetYears \cup {TrainYears[i] : i \in 1..Len(TrainYears)}

\* ref_raster = masks/2025_mndwi_watermask_down.tif
RefYear == 2025
RefExists(ms) == RefYear \in ms

\* the orders in which os.listdir may enumerate the set S ("arbitrary order")
RECURSIVE Orders(_)
Orders(S) ==
    IF S = {} THEN {<<>>}
    ELSE UNION {{<<f>> \o l : l \in Orders(S \ {f})} : f \in S}

\* Orders of every directory content, evaluated once each
OrdersCache == [S \in SUBSET AllPaths |-> Orders(S)]
Listings(S) == OrdersCache[S]

\* the lists of distinct years train may be given
YearLists ==
    {l \in UNION {[1..n -> TargetYears] : n \in 0..MaxYears} :
        \A i, j \in 1..Len(l) : l[i] = l[j] => i = j}

Range(seq) == {seq[i] : i \in 1..Len(seq)}

(***************************************************************************)
(* _coregister_raster, as _stack_features sees it: it opens the reference   *)
(* raster and raises when that file is missing, before dest_path is         *)
(* created; otherwise it writes dest_path.                                  *)
(***************************************************************************)
CoregisterRaises(ms) == ~RefExists(ms)

\* a loop that ignores the files already on disk
AlwaysCoregister(aligned_path, d) == TRUE

\* "if not os.path.exists(aligned_path)": whether _coregister_raster is called
NeedsCoregister(aligned_path, d) == aligned_path \notin d

\* a loop without the year filter
IncludeAll(basename, year) == TRUE

\* which aligned rasters the loop body adds to the stack (the if / elif)
Included(basename, year) ==
    IF IsStatic(basename) THEN TRUE
    ELSE MatchesYear(basename, year)

\* what the loop body computes from the name of a file alone
NameInfo(f) ==
    LET file == Chars(f)
        basename == Splitext(file)[1]
    IN [tif |-> EndsWith(Lower(file), TifExt),
        aligned |-> EndsWith(basename, AlignedSuffix),
        \* computed only under "if not basename.endswith('_aligned')"
        aligned_path |-> IF EndsWith(basename, AlignedSuffix) THEN "" ELSE FileOf(AlignedPath(basename)),
        included |-> {year \in StackYears : Included(basename, year)}]

\* NameInfo of every file, evaluated once each
Info == [f \in AllPaths |-> NameInfo(f)]

(***************************************************************************)
(* _stack_features: the loop over os.listdir(self.features).  st is the     *)
(* state of the call: the directory as it is now, the files whose arrays   *)
(* were appended to features, the source files _coregister_raster was      *)
(* invoked for, the paths it wrote.                                        *)
(***************************************************************************)
RECURSIVE StackLoop(_, _, _, _, _)
StackLoop(listing, i, year, ms, st) ==
    IF i > Len(listing) THEN st
    ELSE
      LET file == Info[listing[i]] IN
      IF ~file.tif THEN StackLoop(listing, i + 1, year, ms, st)
      ELSE IF ~file.aligned THEN
          LET aligned_path == file.aligned_path IN
          IF NeedsCoregister(aligned_path, st.dir) THEN
              IF CoregisterRaises(ms)
              THEN [st EXCEPT !.raised = "RasterioIOError",
                              !.invoked = Append(@, listing[i])]
              ELSE StackLoop(listing, i + 1, year, ms,
                       [st EXCEPT !.dir = @ \cup {aligned_path},
                                  !.invoked = Append(@, listing[i]),
                                  !.wrote = Append(@, aligned_path)])
          ELSE StackLoop(listing, i + 1, year, ms, st)
      ELSE IF year \in file.included
          THEN StackLoop(listing, i + 1, year, ms, [st EXCEPT !.stack = Append(@, listing[i])])
          ELSE StackLoop(listing, i + 1, year, ms, st)

\* a loop end without the emptiness test
NeverEmpty(features) == FALSE

\* "if not features"
NoFeatures(features) == features = <<>>

\* the whole call: the loop, then "if not features: raise ValueError"
StackFeatures(d, ms, year, listing) ==
    LET st == StackLoop(listing, 1, year, ms,
                  [dir |-> d, stack |-> <<>>, invoked |-> <<>>, wrote |-> <<>>, raised |-> "none"])
        raised == IF st.raised # "none" THEN st.raised
                  ELSE IF NoFeatures(st.stack) THEN "ValueError: No features found"
                  ELSE "none"
    IN [year |-> year, dir |-> st.dir, stack |-> st.stack,
        invoked |-> st.invoked, wrote |-> st.wrote, raised |-> raised,
        \* the message names the year and self.features
        msgYear |-> IF raised = "ValueError: No features found" THEN year ELSE 0]

NoCall == [year |-> 0, dir |-> {}, stack |-> <<>>,
           invoked |-> <<>>, wrote |-> <<>>, raised |-> "nocall", msgYear |-> 0]

\* the effects of one _stack_features call r
Stacked(r) ==
    /\ dir' = r.dir
    /\ invokedEver' = invokedEver \cup Range(r.invoked)
    /\ last' = r

\* RandomForestClassifier(...) as constructed, joblib.load(model_path), and no file
Unfitted == [state |-> "unfitted", fit |-> <<>>]
Loaded == [state |-> "loaded", fit |-> <<>>]
NoModel == [state |-> "none", fit |-> <<>>]

\* n_features_in_ of a model loaded from model_path
LoadedFeatures == {1, 2}

NoRes == [op |-> "none", year |-> 0, raised |-> "none", fitCalled |-> FALSE, wrote |-> FALSE]

(***************************************************************************)
(* Predictor.__init__: the model is loaded when model_path names an        *)
(* existing file, otherwise a fresh, unfitted RandomForestClassifier.      *)
(***************************************************************************)
PredInit ==
    /\ dir \in {S \in SUBSET Universe : Cardinality(S) <= MaxFiles}
    /\ masks \in SUBSET LabelYears
    /\ model \in {Unfitted, Loaded}
    /\ nfeat \in (IF model = Loaded THEN LoadedFeatures ELSE {0})
    /\ badLabels \in SUBSET masks
    /\ XCols = <<>> /\ Y = <<>> /\ fitCols = <<>>
    /\ saved = NoModel
    /\ pc = "idle"
    /\ years = <<>>
    /\ yi = 1
    /\ X = <<>>
    /\ warned = {}
    /\ calls = 0
    /\ invokedEver = {}
    /\ last = NoCall
    /\ res = NoRes

PredIdle ==
    /\ dir = {} /\ masks = {} /\ model = Unfitted /\ saved = NoModel /\ pc = "idle"
    /\ years = <<>> /\ yi = 1 /\ X = <<>> /\ warned = {} /\ calls = 0
    /\ invokedEver = {} /\ last = NoCall /\ res = NoRes
    /\ XCols = <<>> /\ Y = <<>> /\ fitCols = <<>> /\ nfeat = 0 /\ badLabels = {}

MaskIdle == mA = <<>> /\ mT = 0 /\ mOut = "none"
PixIdle == pStack = <<>> /\ pFitted = FALSE /\ pOut = "none"
AlignIdle == aSrc = "none" /\ aRef = "none" /\ aOut = "none"
VecIdle == gIn = "none" /\ gOut = "none"
FetchIdle == fIn = "none" /\ fOut = "none"
PipeIdle ==
    /\ stage = "none" /\ ppc = 1 /\ plog = <<>> /\ perr = "none" /\ dry = {} /\ inodata = <<>>
    /\ masksDir = TRUE
    /\ index = {} /\ lake = <<>> /\ maskf = <<>> /\ noWater = {}
RestIdle == VecIdle /\ FetchIdle /\ PipeIdle

\* a direct call of _stack_features(year)
CallStackFeatures ==
    /\ pc = "idle" /\ calls < MaxCalls
    /\ \E year \in TargetYears, listing \in Listings(dir) :
         LET r == StackFeatures(dir, masks, year, listing) IN
         /\ Stacked(r)
         /\ res' = [NoRes EXCEPT !.op = "stack", !.year = year, !.raised = r.raised]
    /\ calls' = calls + 1
    /\ UNCHANGED <<masks, model, saved, pc, years, yi, X, warned, trainVars>>

\* train(ys): X = [], y = [], then the loop
TrainStartWith(ys) ==
    /\ pc = "idle"
    /\ years' = ys
    /\ yi' = 1
    /\ pc' = "train"
    /\ X' = <<>>
    /\ XCols' = <<>>
    /\ Y' = <<>>
    /\ warned' = {}
    /\ calls' = calls + 1
    /\ res' = NoRes
    /\ last' = NoCall
    /\ UNCHANGED <<dir, masks, model, saved, invokedEver, fitCols, nfeat, badLabels>>

\* train(years) on any list of years
TrainStart == calls < MaxCalls /\ \E ys \in YearLists : TrainStartWith(ys)

\* l_1d[valid_mask]: IndexError when the label raster has another number of
\* pixels than the stack (the boolean index does not match the array)
LabelIndexRaises(year, bad) == year \in bad

\* one iteration of "for year in years"
TrainYear ==
    /\ pc = "train" /\ yi <= Len(years)
    /\ LET year == years[yi] IN
       \E listing \in Listings(dir) :
         LET r == StackFeatures(dir, masks, year, listing) IN
         /\ Stacked(r)
         /\ IF r.raised # "none"
            THEN \* the exception leaves train
                 /\ pc' = "idle"
                 /\ res' = [NoRes EXCEPT !.op = "train", !.year = year, !.raised = r.raised]
                 /\ UNCHANGED <<yi, X, XCols, Y, warned>>
            ELSE IF year \notin masks
            THEN \* "No label found for {year}, skipping"
                 /\ warned' = warned \cup {year}
                 /\ yi' = yi + 1
                 /\ UNCHANGED <<pc, X, XCols, Y, res>>
            ELSE \* X.append(f_2d[valid_mask]), then y.append(l_1d[valid_mask])
                 /\ X' = Append(X, year)
                 /\ XCols' = Append(XCols, r.stack)
                 /\ IF LabelIndexRaises(year, badLabels)
                    THEN /\ pc' = "idle"
                         /\ res' = [NoRes EXCEPT !.op = "train", !.year = year, !.raised = "IndexError"]
                         /\ UNCHANGED <<yi, Y, warned>>
                    ELSE \* the size check of lines 195-197 logs and continues
                         /\ Y' = Append(Y, year)
                         /\ yi' = yi + 1
                         /\ UNCHANGED <<pc, warned, res>>
    /\ UNCHANGED <<masks, model, saved, calls, years, fitCols, nfeat, badLabels>>

\* a vstack that accepts an empty list
VstackAccepts(rows) == FALSE

\* np.vstack(X): "need at least one array to concatenate" on an empty list
VstackRaises(rows) == rows = <<>>

\* np.vstack(X) on blocks with different numbers of columns: ValueError
ColumnsDiffer(cols) == \E i, j \in 1..Len(cols) : Len(cols[i]) # Len(cols[j])

\* X.shape[1] of the matrix handed to fit (n_features_in_); 0 stands for none
Columns(cols) == IF cols = <<>> THEN 0 ELSE Len(cols[1])

\* after the loop: np.vstack(X), then model.fit(X, y)
TrainFit ==
    /\ pc = "train" /\ yi > Len(years)
    /\ pc' = "idle"
    /\ IF VstackRaises(X)
       THEN /\ res' = [NoRes EXCEPT !.op = "train", !.raised = "ValueError: need at least one array"]
            /\ UNCHANGED <<model, fitCols, nfeat>>
       ELSE IF ColumnsDiffer(XCols)
       THEN /\ res' = [NoRes EXCEPT !.op = "train", !.raised = "ValueError: dimensions must match"]
            /\ UNCHANGED <<model, fitCols, nfeat>>
       ELSE /\ model' = [state |-> "fitted", fit |-> X]
            /\ fitCols' = XCols
            /\ nfeat' = Columns(XCols)
            /\ res' = [NoRes EXCEPT !.op = "train", !.fitCalled = TRUE]
    /\ last' = NoCall
    /\ UNCHANGED <<dir, masks, saved, years, yi, X, XCols, Y, badLabels, warned, calls, invokedEver>>

\* an estimator that predicts without having been fitted
AnyModel(m) == TRUE

\* sklearn: predict on an estimator that was never fitted raises NotFittedError
ModelFitted(m) == m.state # "unfitted"

\* sklearn: predict on rows with another number of columns than the model was
\* fitted on raises ValueError; the comparison is skipped when the estimator
\* holds no n_features_in_ (n = 0)
FeatureCountDiffers(stack, n) == n # 0 /\ Len(stack) # n

\* predict(year, save=True)
PredictOf(year) ==
    /\ pc = "idle"
    /\ \E listing \in Listings(dir) :
         LET r == StackFeatures(dir, masks, year, listing) IN
         /\ Stacked(r)
         /\ IF r.raised # "none"
            THEN res' = [NoRes EXCEPT !.op = "predict", !.year = year, !.raised = r.raised]
            ELSE IF ~ModelFitted(model)
            THEN res' = [NoRes EXCEPT !.op = "predict", !.year = year, !.raised = "NotFittedError"]
            ELSE IF FeatureCountDiffers(r.stack, nfeat)
            THEN res' = [NoRes EXCEPT !.op = "predict", !.year = year, !.raised = "ValueError: feature count"]
            ELSE res' = [NoRes EXCEPT !.op = "predict", !.year = year, !.wrote = TRUE]
    /\ calls' = calls + 1
    /\ UNCHANGED <<masks, model, saved, pc, years, yi, X, warned, trainVars>>

\* predict on any target year
Predict == calls < MaxCalls /\ \E year \in TargetYears : PredictOf(year)

\* save_model(): joblib.dump(self.model, processed/model)
JoblibDump ==
    /\ pc = "idle"
    /\ saved' = model
    /\ calls' = calls + 1
    /\ res' = [NoRes EXCEPT !.op = "save"]
    /\ last' = NoCall
    /\ UNCHANGED <<dir, masks, model, pc, years, yi, X, warned, invokedEver, trainVars>>

SaveModel == calls < MaxCalls /\ JoblibDump

Init == PredInit /\ MaskIdle /\ PixIdle /\ AlignIdle /\ RestIdle

Next ==
    \/ (TrainStart /\ UNCHANGED <<maskVars, pixVars, alignVars, restVars>>)
    \/ (TrainYear /\ UNCHANGED <<maskVars, pixVars, alignVars, restVars>>)
    \/ (TrainFit /\ UNCHANGED <<maskVars, pixVars, alignVars, restVars>>)
    \/ (Predict /\ UNCHANGED <<maskVars, pixVars, alignVars, restVars>>)
    \/ (SaveModel /\ UNCHANGED <<maskVars, pixVars, alignVars, restVars>>)

Spec == Init /\ [][Next]_vars

\* sequences of direct _stack_features calls
StackNext == CallStackFeatures /\ UNCHANGED <<maskVars, pixVars, alignVars, restVars>>

SpecStack == Init /\ [][StackNext]_vars

(***************************************************************************)
(* Raster values.  A stored value is a number or NaN; a raster declares    *)
(* no nodata value ("none"), a number, or NaN.                             *)
(***************************************************************************)
MaxPix == 2

Num(n) == [nan |-> FALSE, v |-> n]
NaN == [nan |-> TRUE, v |-> 0]
NoNodata == [nan |-> FALSE, v |-> 0, none |-> TRUE]
Nodata(x) == [nan |-> x.nan, v |-> x.v, none |-> FALSE]

\* src.read(1, masked=True): a pixel is masked when it stores the nodata value
IsMasked(nodata, x) ==
    /\ ~nodata.none
    /\ IF nodata.nan THEN x.nan ELSE (~x.nan /\ x.v = nodata.v)

\* x > t on the stored value (False for NaN)
Greater(x, t) == ~x.nan /\ x.v > t

(***************************************************************************)
(* create_mask, lines up to the vectorization mask (the same lines in      *)
(* Mndwi.create_mask and ExtentAnalyzer.create_mask).                      *)
(***************************************************************************)
IndexValues == {Num(-1), Num(0), Num(1), Num(2), NaN}
IndexNodata == {NoNodata, Nodata(Num(-1)), Nodata(Num(0)), Nodata(Num(2)), Nodata(NaN)}
Thresholds == {-1, 0, 1}

\* mask = arr > self.threshold: a masked array; the comparison is made on the
\* stored values and the source's mask is carried along
ThresholdData(A, t) == [i \in 1..Len(A.px) |-> IF Greater(A.px[i], t) THEN 1 ELSE 0]
ThresholdMask(A) == [i \in 1..Len(A.px) |-> IsMasked(A.nodata, A.px[i])]

\* mask_arr = np.where(mask, 1, 0).astype(np.uint8): np.where reads the data of
\* the masked array and ignores its mask
MaskArr(A, t) == [i \in 1..Len(A.px) |-> IF ThresholdData(A, t)[i] = 1 THEN 1 ELSE 0]

\* whether a nodata value can be the nodata of the uint8 raster that meta
\* (copied from the source, dtype set to uint8) describes
Uint8Max == 255
FitsUint8(nodata) == nodata.none \/ (~nodata.nan /\ nodata.v >= 0 /\ nodata.v <= Uint8Max)

\* dest.write(mask.astype(np.uint8), 1): the data of the masked array is written
\* as it is, or its masked pixels are first filled with the raster's nodata
\* value, depending on the rasterio release
WrittenMask(A, t, fill) ==
    [i \in 1..Len(A.px) |->
        IF fill /\ ThresholdMask(A)[i] THEN A.nodata.v ELSE ThresholdData(A, t)[i]]

MaskNone == [state |-> "none", by |-> "", raster |-> <<>>, mask_arr |-> <<>>]

MaskInit ==
    /\ mA \in [nodata : IndexNodata, px : [1..MaxPix -> IndexValues]]
    /\ mT \in Thresholds
    /\ mOut = MaskNone

\* the raster cannot be created: rasterio refuses a nodata value outside uint8
CreateMaskRaises ==
    /\ mOut.state = "none"
    /\ ~FitsUint8(mA.nodata)
    /\ \E cls \in {"Mndwi", "ExtentAnalyzer"} :
         mOut' = [MaskNone EXCEPT !.state = "raised", !.by = cls]
    /\ UNCHANGED <<mA, mT>>

CreateMask ==
    /\ mOut.state = "none"
    /\ FitsUint8(mA.nodata)
    /\ \E cls \in {"Mndwi", "ExtentAnalyzer"}, fill \in BOOLEAN :
         mOut' = [state |-> "written", by |-> cls,
                  raster |-> WrittenMask(mA, mT, fill),
                  mask_arr |-> MaskArr(mA, mT)]
    /\ UNCHANGED <<mA, mT>>

MaskNext ==
    \/ (CreateMask /\ UNCHANGED <<predVars, pixVars, alignVars, restVars>>)
    \/ (CreateMaskRaises /\ UNCHANGED <<predVars, pixVars, alignVars, restVars>>)

InitMask == PredIdle /\ MaskInit /\ PixIdle /\ AlignIdle /\ RestIdle

SpecMask == InitMask /\ [][MaskNext]_vars

(***************************************************************************)
(* predict, from the stack to the output raster.  A plane is a 2-D array   *)
(* of stored values with the nodata value of its file.                     *)
(***************************************************************************)
MaxPlanes == 2
PlaneValues == {Num(0), Num(1), NaN}
PlaneNodata == {NoNodata, Nodata(Num(0)), Nodata(NaN)}
Shapes == {<<1, 2>>, <<2, 1>>}
Classifiers == {"zero", "one", "first"}

\* features.reshape(features.shape[0], -1).T: row k of f_2d, row-major
Row(planes, shape, k) ==
    [p \in 1..Len(planes) |-> planes[p].px[((k - 1) \div shape[2]) + 1][((k - 1) % shape[2]) + 1]]

\* ~np.any(np.isnan(f_2d), axis=1) on the stacked data: np.stack keeps the
\* stored values and drops the masks of the planes
ValidRow(row) == \A p \in 1..Len(row) : ~row[p].nan

\* self.model.predict on one row of a fitted model
Classify(clf, row) ==
    CASE clf = "zero" -> 0
      [] clf = "one" -> 1
      [] clf = "first" -> IF row[1].v >= 1 THEN 1 ELSE 0

\* preds[:] = np.nan; preds[valid_mask] = predictions
Preds(planes, shape, clf) ==
    [k \in 1..(shape[1] * shape[2]) |->
        IF ValidRow(Row(planes, shape, k)) THEN Num(Classify(clf, Row(planes, shape, k))) ELSE NaN]

\* preds.reshape(features.shape[1], features.shape[2])
Reshape(v, h, w) == [r \in 1..h |-> [c \in 1..w |-> v[(r - 1) * w + c]]]

PixNone == [state |-> "none", img |-> <<>>]

PixInit ==
    /\ \E shape \in Shapes, n \in 1..MaxPlanes :
         pStack \in [shape : {shape},
                     planes : [1..n -> [nodata : PlaneNodata,
                                        px : [1..shape[1] -> [1..shape[2] -> PlaneValues]]]]]
    /\ pFitted \in [fitted : BOOLEAN, clf : Classifiers]
    /\ pOut = PixNone

\* sklearn: NotFittedError on an unfitted estimator, ValueError on zero rows
PredictPixelsRaises ==
    /\ pOut.state = "none"
    /\ \/ ~pFitted.fitted
       \/ \A k \in 1..(pStack.shape[1] * pStack.shape[2]) : ~ValidRow(Row(pStack.planes, pStack.shape, k))
    /\ pOut' = [PixNone EXCEPT !.state = "raised"]
    /\ UNCHANGED <<pStack, pFitted>>

PredictPixels ==
    /\ pOut.state = "none"
    /\ pFitted.fitted
    /\ \E k \in 1..(pStack.shape[1] * pStack.shape[2]) : ValidRow(Row(pStack.planes, pStack.shape, k))
    /\ pOut' = [state |-> "done",
                img |-> Reshape(Preds(pStack.planes, pStack.shape, pFitted.clf),
                                pStack.shape[1], pStack.shape[2])]
    /\ UNCHANGED <<pStack, pFitted>>

PixNext ==
    \/ (PredictPixels /\ UNCHANGED <<predVars, maskVars, alignVars, restVars>>)
    \/ (PredictPixelsRaises /\ UNCHANGED <<predVars, maskVars, alignVars, restVars>>)

InitPix == PredIdle /\ MaskIdle /\ PixInit /\ AlignIdle /\ RestIdle

SpecPix == InitPix /\ [][PixNext]_vars

(***************************************************************************)
(* _coregister_raster: the grid of the raster it writes.  A grid is a CRS, *)
(* the transform (pixel size, left, top) and width and height; pixels are  *)
(* square.  Two CRSs stand for a projected one ("utm") and a geographic    *)
(* one ("geo"); converting a coordinate from geo to utm multiplies it by   *)
(* UnitsPerDegree.                                                         *)
(***************************************************************************)
UnitsPerDegree == 2
CRSs == {"utm", "geo"}

GridsOf(crs) ==
    [crs : {crs}, res : {2, 4}, left : {0, 8}, top : {16, 32}, width : {3, 4}, height : {3, 4}]
Grids == UNION {GridsOf(c) : c \in CRSs}

Convert(x, from, to) ==
    IF from = to THEN x
    ELSE IF from = "geo" THEN x * UnitsPerDegree
    ELSE x \div UnitsPerDegree

\* floor of the square root
ISqrt(n) == CHOOSE r \in 0..n : r * r <= n /\ (r + 1) * (r + 1) > n

\* ref.bounds
Bounds(g) ==
    [left |-> g.left, bottom |-> g.top - g.res * g.height,
     right |-> g.left + g.res * g.width, top |-> g.top]

\* rasterio.warp.calculate_default_transform(src_crs, dst_crs, width, height,
\* left, bottom, right, top): the bounds are read as coordinates of src_crs and
\* taken to dst_crs; the pixel size keeps the number of pixels on the diagonal
CalculateDefaultTransform(src_crs, dst_crs, width, height, left, bottom, right, top) ==
    LET l == Convert(left, src_crs, dst_crs)
        b == Convert(bottom, src_crs, dst_crs)
        r == Convert(right, src_crs, dst_crs)
        t == Convert(top, src_crs, dst_crs)
        diag == ISqrt((r - l) * (r - l) + (t - b) * (t - b))
        pixels == ISqrt(width * width + height * height)
        size == IF diag \div pixels = 0 THEN 1 ELSE diag \div pixels
    IN [res |-> size, left |-> l, top |-> t,
        width |-> (2 * (r - l) + size) \div (2 * size),
        height |-> (2 * (t - b) + size) \div (2 * size)]

\* dst_kwargs after the update: the grid of the raster written to dest_path
Coregister(src, ref) ==
    LET bnd == Bounds(ref)
        d == CalculateDefaultTransform(src.crs, ref.crs, ref.width, ref.height,
                                       bnd.left, bnd.bottom, bnd.right, bnd.top)
    IN [crs |-> ref.crs, res |-> d.res, left |-> d.left, top |-> d.top,
        width |-> d.width, height |-> d.height]

AlignInit ==
    /\ aSrc \in [crs : CRSs, res : {2, 4}, left : {0}, top : {16}, width : {3}, height : {3}]
    /\ aRef \in Grids
    /\ aOut = [state |-> "none"]

CoregisterRaster ==
    /\ aOut.state = "none"
    /\ aOut' = [state |-> "written", grid |-> Coregister(aSrc, aRef)]
    /\ UNCHANGED <<aSrc, aRef>>

AlignNext == CoregisterRaster /\ UNCHANGED <<predVars, maskVars, pixVars, restVars>>

InitAlign == PredIdle /\ MaskIdle /\ PixIdle /\ AlignInit /\ RestIdle

SpecAlign == InitAlign /\ [][AlignNext]_vars

(***************************************************************************)
(* DataLoader.fetch_data and the OpenStreetMap download of                 *)
(* analyze_shoreline.  An external call ends "ok", with a KeyError, or     *)
(* with another exception ("error": a network or API error); a search may  *)
(* also find nothing ("empty").  fetch_data calls _fetch_precip only (the  *)
(* other two fetches are commented out).                                   *)
(***************************************************************************)
\* the number of years for which the catalog answers other than with data
MaxFailedYears == 2

\* config.years, and self.years = config.years
ConfigYears == <<2007, 2013, 2016, 2019, 2025>>
FetchYears == ConfigYears

OpenKinds == {"ok", "KeyError", "error"}
SearchKinds == {"ok", "empty", "KeyError", "error"}
LoadKinds == {"ok", "KeyError", "error"}
OsmKinds == {"ok", "error"}

\* the three features_from_bbox calls: buildings, roads, facilities
OsmCalls == 3

\* how the catalog answers for one year: the search, and, when the search
\* found items, the signing and loading of the first item
YearResponses ==
    {r \in [search : SearchKinds, load : LoadKinds] : r.search = "ok" \/ r.load = "ok"}

\* the answers for the years of the run
CatalogAnswers ==
    {r \in [1..Len(FetchYears) -> YearResponses] :
        Cardinality({i \in 1..Len(FetchYears) :
                        r[i].search # "ok" \/ r[i].load # "ok"}) <= MaxFailedYears}

FetchInputs ==
    {[open |-> o,
      search |-> [i \in 1..Len(FetchYears) |-> r[i].search],
      load |-> [i \in 1..Len(FetchYears) |-> r[i].load],
      osm |-> m] :
        o \in OpenKinds, r \in CatalogAnswers, m \in [1..OsmCalls -> OsmKinds]}

\* the "except KeyError" of the try block around signing and loading
Caught(kind) == kind = "KeyError"

\* _fetch_precip: "for year in self.years"; the search is outside the try
RECURSIVE FetchPrecip(_, _, _)
FetchPrecip(in, i, st) ==
    IF i > Len(FetchYears) THEN st
    ELSE IF in.search[i] \notin {"ok", "empty"}
         THEN [st EXCEPT !.raised = in.search[i], !.year = FetchYears[i]]
    ELSE IF in.search[i] = "empty"
         THEN FetchPrecip(in, i + 1, [st EXCEPT !.logged = Append(@, FetchYears[i])])
    ELSE IF in.load[i] = "ok"
         THEN FetchPrecip(in, i + 1, [st EXCEPT !.downloaded = Append(@, FetchYears[i])])
    ELSE IF Caught(in.load[i])
         THEN FetchPrecip(in, i + 1, [st EXCEPT !.logged = Append(@, FetchYears[i])])
    ELSE [st EXCEPT !.raised = in.load[i], !.year = FetchYears[i]]

FetchNone == [op |-> "none", raised |-> "none", year |-> 0, downloaded |-> <<>>, logged |-> <<>>]

\* fetch_data: Client.open, then _fetch_precip
FetchData(in) ==
    IF in.open # "ok"
    THEN [FetchNone EXCEPT !.op = "fetch_data", !.raised = in.open]
    ELSE FetchPrecip(in, 1, [FetchNone EXCEPT !.op = "fetch_data"])

\* analyze_shoreline, lines 131-133: the first failing download raises
OsmDownload(in) ==
    IF \E i \in 1..OsmCalls : in.osm[i] # "ok"
    THEN [FetchNone EXCEPT !.op = "osm", !.raised = in.osm[CHOOSE i \in 1..OsmCalls :
                                in.osm[i] # "ok" /\ \A j \in 1..(i - 1) : in.osm[j] = "ok"]]
    ELSE [FetchNone EXCEPT !.op = "osm"]

\* the ways fetch_data and the OSM download can end: "none" or the exception
\* (fetch_data reads the catalog's answers only, the OSM download its own)
FetchOutcomes ==
    {FetchData([open |-> o,
                search |-> [i \in 1..Len(FetchYears) |-> r[i].search],
                load |-> [i \in 1..Len(FetchYears) |-> r[i].load]]).raised :
        o \in OpenKinds, r \in CatalogAnswers}
OsmOutcomes == {OsmDownload([osm |-> m]).raised : m \in [1..OsmCalls -> OsmKinds]}

FetchInit == fIn \in FetchInputs /\ fOut = FetchNone

FetchDataCall ==
    /\ fOut.op = "none"
    /\ fOut' = FetchData(fIn)
    /\ UNCHANGED fIn

OsmDownloadCall ==
    /\ fOut.op = "none"
    /\ fOut' = OsmDownload(fIn)
    /\ UNCHANGED fIn

FetchNext ==
    \/ (FetchDataCall /\ UNCHANGED <<predVars, maskVars, pixVars, alignVars, vecVars, pipeVars>>)
    \/ (OsmDownloadCall /\ UNCHANGED <<predVars, maskVars, pixVars, alignVars, vecVars, pipeVars>>)

InitFetch == PredIdle /\ MaskIdle /\ PixIdle /\ AlignIdle /\ VecIdle /\ FetchInit /\ PipeIdle

SpecFetch == InitFetch /\ [][FetchNext]_vars

(***************************************************************************)
(* The pipeline: main.py runs the steps of the chosen stage one after the  *)
(* other; nothing catches an exception, so the first step that raises ends *)
(* the run.  A step is [op, year].                                         *)
(***************************************************************************)
MaxDry == 1
MaxMissing == 1
MaxDeclared == 1
MaxStale == 1

Step(op, year) == [op |-> op, year |-> year]

\* Mndwi.run_mndwi, in the order of its lines
FindBandYears == <<2001, 2001, 2007, 2007, 2013, 2013, 2016, 2016, 2019, 2019, 2025, 2025>>
CalcYears == <<2016, 2007, 2001, 2013, 2019, 2025>>
MaskYears == <<2001, 2007, 2013, 2016, 2019, 2025>>
GapYears == <<2007, 2016>>
RunMndwi ==
    [i \in 1..Len(FindBandYears) |-> Step("find_band", FindBandYears[i])]
    \o [i \in 1..Len(CalcYears) |-> Step("mndwi_calc", CalcYears[i])]
    \o [i \in 1..Len(MaskYears) |-> Step("Mndwi.create_mask", MaskYears[i])]
    \o [i \in 1..Len(GapYears) |-> Step("fill_gaps", GapYears[i])]

\* ExtentAnalyzer.run_extent
ExtentYears == <<2007, 2016, 2025>>
RunExtent ==
    [i \in 1..Len(ExtentYears) |-> Step("ExtentAnalyzer.create_mask", ExtentYears[i])]
    \o <<Step("analyze_shoreline", 0)>>

\* a run_prediction that saves the model before it trains
SaveFirst == <<Step("save_model", 0), Step("train", 0), Step("predict", 2031)>>

\* LakeRisePipeline.run_prediction: train([2007, 2019, 2025]), predict(2031), save_model()
PredictYear == 2031
RunPrediction == <<Step("train", 0), Step("predict", PredictYear), Step("save_model", 0)>>

RunDownload == <<Step("fetch_data", 0)>>
ProcessDem == <<Step("calculate_features", 0)>>

\* a pipeline that predicts before it extracts the extents
PredictionFirst == RunDownload \o RunMndwi \o ProcessDem \o RunPrediction \o RunExtent

\* LakeRisePipeline.run_full_pipeline
RunFullPipeline == RunDownload \o RunMndwi \o ProcessDem \o RunExtent \o RunPrediction

\* main.py: the steps of a --stage value
Stages == {"all", "download", "process", "extent", "predict"}
Program(st) ==
    CASE st = "all" -> RunFullPipeline
      [] st = "download" -> RunDownload
      [] st = "process" -> RunMndwi \o ProcessDem
      [] st = "extent" -> RunExtent
      [] st = "predict" -> RunPrediction
      [] OTHER -> <<>>

AllYears == Range(MaskYears)

\* layer: whether this run wrote the year's per-date polygon layer
\* (<year>_mndwi_watermask.shp)
Absent == [state |-> "absent", by |-> "", from |-> "", layer |-> "untouched"]
Stale == [state |-> "stale", by |-> "", from |-> "", layer |-> "untouched"]

Event(ev, year) == [ev |-> ev, year |-> year]

\* the nodata values an index raster may declare, and the declarations of
\* the rasters of a run: none, but for at most MaxDeclared years
PipeNodata == {Nodata(NaN), Nodata(Num(0 - 1)), Nodata(Num(0))}
PipeNodatas ==
    {[y \in AllYears |-> IF y \in DOMAIN f THEN f[y] ELSE NoNodata] :
        f \in UNION {[D -> PipeNodata] : D \in {E \in SUBSET AllYears : Cardinality(E) <= MaxDeclared}}}

PipeInit ==
    /\ stage \in Stages
    /\ ppc = 1
    /\ plog = <<>>
    /\ perr = "none"
    /\ dry \in {D \in SUBSET AllYears : Cardinality(D) <= MaxDry}
    /\ inodata \in PipeNodatas
    /\ masksDir \in BOOLEAN
    /\ index \in {AllYears \ M : M \in {D \in SUBSET AllYears : Cardinality(D) <= MaxMissing}}
    /\ lake \in {[y \in AllYears |-> IF y \in S THEN Stale ELSE Absent] :
                    S \in {T \in SUBSET Range(ExtentYears) : Cardinality(T) <= MaxStale}}
    /\ maskf = [y \in AllYears |-> "absent"]
    /\ noWater = {}

\* the step the run is at
Running == perr = "none" /\ ppc <= Len(Program(stage))
Cur == Program(stage)[ppc]

\* the step completed, leaving the events evs
Completes(evs) == ppc' = ppc + 1 /\ plog' = plog \o evs /\ perr' = "none"
\* the step raised e after the events evs; the exception leaves main.py
Raises(e, evs) == ppc' = ppc /\ plog' = plog \o evs /\ perr' = e

\* run_download
Download ==
    /\ Running /\ Cur.op = "fetch_data"
    /\ \E raised \in FetchOutcomes :
         IF raised = "none" THEN Completes(<<Event("fetch_data", 0)>>)
         ELSE Raises(raised, <<>>)
    /\ UNCHANGED <<stage, dry, inodata, masksDir, index, lake, maskf, noWater>>

\* find_band: rio.open_rasterio raises when the raw file cannot be opened,
\* and the search raises when no band carries the name
FindBandOutcomes == {"found", "RasterioIOError", "ValueError: Band not found"}
FindBand ==
    /\ Running /\ Cur.op = "find_band"
    /\ \E o \in FindBandOutcomes :
         IF o = "found" THEN Completes(<<Event("find_band", Cur.year)>>)
         ELSE Raises(o, <<>>)
    /\ UNCHANGED <<stage, dry, inodata, masksDir, index, lake, maskf, noWater>>

\* mndwi_calc: writes processed/<year>_mndwi.tif
MndwiCalc ==
    /\ Running /\ Cur.op = "mndwi_calc"
    /\ index' = index \cup {Cur.year}
    /\ Completes(<<Event("mndwi_calc", Cur.year)>>)
    /\ UNCHANGED <<stage, dry, inodata, masksDir, lake, maskf, noWater>>

\* a create_mask that finds polygons in every raster
AlwaysPolygons(year, d) == TRUE

\* "if polygons": the traced mask has a polygon of value 1
HasPolygons(year, d) == year \notin d

\* whether rasterio.open(raster_out_path, 'w', **meta) can create the file:
\* Mndwi.create_mask writes into processed/masks, ExtentAnalyzer.create_mask
\* into processed, the directory the index raster was read from
CanCreate(cls, md) == cls = "Mndwi.create_mask" => md

\* create_mask of either class: read the index raster, threshold, create the
\* uint8 mask raster with the meta of the index raster, write it, vectorize,
\* and write results/lake_<year>.shp when there are polygons.  The writer
\* creates the file (replacing one that exists) and only then refuses a
\* nodata value outside uint8, which leaves an empty raster behind.
CreateMaskStep(cls) ==
    /\ Running /\ Cur.op = cls
    /\ IF Cur.year \notin index
       THEN /\ Raises("RasterioIOError", <<>>)
            /\ UNCHANGED <<lake, maskf, noWater>>
       ELSE IF ~CanCreate(cls, masksDir)
       THEN /\ Raises("RasterioIOError", <<>>)
            /\ UNCHANGED <<lake, maskf, noWater>>
       ELSE IF ~FitsUint8(inodata[Cur.year])
       THEN /\ Raises("ValueError", <<>>)
            /\ maskf' = IF cls = "Mndwi.create_mask"
                        THEN [maskf EXCEPT ![Cur.year] = "empty"] ELSE maskf
            /\ UNCHANGED <<lake, noWater>>
       ELSE /\ maskf' = IF cls = "Mndwi.create_mask"
                        THEN [maskf EXCEPT ![Cur.year] = "thresholded"] ELSE maskf
            /\ IF HasPolygons(Cur.year, dry)
               THEN /\ lake' = [lake EXCEPT ![Cur.year] =
                                   [state |-> "written", by |-> cls, from |-> "thresholded",
                                    layer |-> "written"]]
                    /\ Completes(<<Event("threshold", Cur.year), Event("vectorize", Cur.year)>>)
                    /\ UNCHANGED noWater
               ELSE /\ noWater' = noWater \cup {Cur.year}
                    /\ Completes(<<Event("threshold", Cur.year), Event("no water polygons", Cur.year)>>)
                    /\ UNCHANGED lake
    /\ UNCHANGED <<stage, dry, inodata, masksDir, index>>

MndwiCreateMask == CreateMaskStep("Mndwi.create_mask")
ExtentCreateMask == CreateMaskStep("ExtentAnalyzer.create_mask")

\* fill_gaps on processed/masks/<year>_mndwi_watermask.tif: closing, removal
\* of small objects, opening, then the raster is overwritten
FillGaps ==
    /\ Running /\ Cur.op = "fill_gaps"
    /\ IF maskf[Cur.year] = "absent"
       THEN /\ Raises("RasterioIOError", <<>>)
            /\ UNCHANGED maskf
       ELSE /\ maskf' = [maskf EXCEPT ![Cur.year] = "filled"]
            /\ Completes(<<Event("closing", Cur.year), Event("remove_small_objects", Cur.year),
                           Event("opening", Cur.year)>>)
    /\ UNCHANGED <<stage, dry, inodata, masksDir, index, lake, noWater>>

\* DemProcessing.calculate_features: completes or raises
CalculateFeatures ==
    /\ Running /\ Cur.op = "calculate_features"
    /\ \E ok \in BOOLEAN :
         IF ok THEN Completes(<<Event("calculate_features", 0)>>)
         ELSE Raises("error", <<>>)
    /\ UNCHANGED <<stage, dry, inodata, masksDir, index, lake, maskf, noWater>>

\* gpd.read_file of lake_2007.shp, lake_2016.shp, lake_2025.shp
ShorelineReadFails(lk) == \E i \in 1..Len(ExtentYears) : lk[ExtentYears[i]].state = "absent"

\* analyze_shoreline: read the three extents, areas, growth area, OSM download
AnalyzeShoreline ==
    /\ Running /\ Cur.op = "analyze_shoreline"
    /\ IF ShorelineReadFails(lake)
       THEN Raises("DataSourceError", <<>>)
       ELSE \E raised \in OsmOutcomes :
              IF raised = "none" THEN Completes(<<Event("analyze_shoreline", 0)>>)
              ELSE Raises(raised, <<>>)
    /\ UNCHANGED <<stage, dry, inodata, masksDir, index, lake, maskf, noWater>>

\* train, predict, save_model as steps of the pipeline: each completes or raises
PipeTrain ==
    /\ Running /\ Cur.op = "train"
    /\ \E ok \in BOOLEAN :
         IF ok THEN Completes(<<Event("train", 0)>>) ELSE Raises("error", <<>>)
    /\ UNCHANGED <<stage, dry, inodata, masksDir, index, lake, maskf, noWater>>

PipePredict ==
    /\ Running /\ Cur.op = "predict"
    /\ \E ok \in BOOLEAN :
         IF ok THEN Completes(<<Event("predict", Cur.year)>>) ELSE Raises("error", <<>>)
    /\ UNCHANGED <<stage, dry, inodata, masksDir, index, lake, maskf, noWater>>

PipeSaveModel ==
    /\ Running /\ Cur.op = "save_model"
    /\ Completes(<<Event("save_model", 0)>>)
    /\ UNCHANGED <<stage, dry, inodata, masksDir, index, lake, maskf, noWater>>

PipeOthers == <<predVars, maskVars, pixVars, alignVars, vecVars, fetchVars>>

PipeNext ==
    \/ (Download /\ UNCHANGED PipeOthers)
    \/ (FindBand /\ UNCHANGED PipeOthers)
    \/ (MndwiCalc /\ UNCHANGED PipeOthers)
    \/ (MndwiCreateMask /\ UNCHANGED PipeOthers)
    \/ (FillGaps /\ UNCHANGED PipeOthers)
    \/ (CalculateFeatures /\ UNCHANGED PipeOthers)
    \/ (ExtentCreateMask /\ UNCHANGED PipeOthers)
    \/ (AnalyzeShoreline /\ UNCHANGED PipeOthers)
    \/ (PipeTrain /\ UNCHANGED PipeOthers)
    \/ (PipePredict /\ UNCHANGED PipeOthers)
    \/ (PipeSaveModel /\ UNCHANGED PipeOthers)

InitPipe == PredIdle /\ MaskIdle /\ PixIdle /\ AlignIdle /\ VecIdle /\ FetchIdle /\ PipeInit

SpecPipe == InitPipe /\ [][PipeNext]_vars

(***************************************************************************)
(* run_prediction on the Predictor itself: train([2007, 2019, 2025]),      *)
(* predict(2031), save_model(), each statement reached only when the one   *)
(* before it returned; an exception leaves run_prediction and main.py.     *)
(* The Predictor of the pipeline is built without a model_path.  With      *)
(* stage "none" the Predictor is called directly, in any order.            *)
(***************************************************************************)
RunInit ==
    /\ stage \in {"none", "predict"}
    /\ (stage = "predict" => model = Unfitted)
    /\ ppc = 1 /\ plog = <<>> /\ perr = "none" /\ dry = {} /\ inodata = <<>>
    /\ masksDir = TRUE
    /\ index = {} /\ lake = <<>> /\ maskf = <<>> /\ noWater = {}

RunFrame == UNCHANGED <<stage, dry, inodata, masksDir, index, lake, maskf, noWater>>

\* self.predictor.train([2007, 2019, 2025]): entry
RunTrainStart ==
    /\ Running /\ Cur.op = "train"
    /\ TrainStartWith(TrainYears)
    /\ UNCHANGED <<ppc, plog, perr>>
    /\ RunFrame

\* an iteration of the loop of train
RunTrainYear ==
    /\ Running /\ Cur.op = "train"
    /\ TrainYear
    /\ IF res'.raised # "none" THEN Raises(res'.raised, <<>>)
       ELSE UNCHANGED <<ppc, plog, perr>>
    /\ RunFrame

\* the end of train: vstack and fit
RunTrainFit ==
    /\ Running /\ Cur.op = "train"
    /\ TrainFit
    /\ IF res'.raised # "none" THEN Raises(res'.raised, <<>>)
       ELSE Completes(<<Event("train", 0)>>)
    /\ RunFrame

\* self.predictor.predict(2031)
RunPredict ==
    /\ Running /\ Cur.op = "predict"
    /\ PredictOf(Cur.year)
    /\ IF res'.raised # "none" THEN Raises(res'.raised, <<>>)
       ELSE Completes(<<Event("predict", Cur.year)>>)
    /\ RunFrame

\* self.predictor.save_model()
RunSaveModel ==
    /\ Running /\ Cur.op = "save_model"
    /\ JoblibDump
    /\ Completes(<<Event("save_model", 0)>>)
    /\ RunFrame

RunOthers == <<maskVars, pixVars, alignVars, vecVars, fetchVars>>

\* the Predictor called directly
DirectNext == stage = "none" /\ Next

RunNext ==
    \/ DirectNext
    \/ (RunTrainStart /\ UNCHANGED RunOthers)
    \/ (RunTrainYear /\ UNCHANGED RunOthers)
    \/ (RunTrainFit /\ UNCHANGED RunOthers)
    \/ (RunPredict /\ UNCHANGED RunOthers)
    \/ (RunSaveModel /\ UNCHANGED RunOthers)

InitRun == PredInit /\ MaskIdle /\ PixIdle /\ AlignIdle /\ VecIdle /\ FetchIdle /\ RunInit

SpecRun == InitRun /\ [][RunNext]_vars

(***************************************************************************)
(* create_mask, the "if polygons" branch: the geometry cleanup and the     *)
(* extent it persists (the same lines in both classes, with another        *)
(* minimum area).  A traced part has its area on the ground in m2 and      *)
(* whether it is valid after buffer(0); parts are the connected regions of *)
(* the mask, so dissolve followed by explode gives them back.              *)
(***************************************************************************)
MaxParts == 2

PartAreas == {400, 900, 5000}
Parts == [area : PartAreas, valid : BOOLEAN]

MinAreaMndwi == 1000
MinAreaExtent == 500
MinArea(cls) == IF cls = "Mndwi" THEN MinAreaMndwi ELSE MinAreaExtent

\* buffer(60) and buffer(-30) of step 6
OutwardBuffer == 60
InwardBuffer == -30

\* crs.is_geographic
IsGeographic(crs) == crs = "geo"

\* steps 3-5 on gdf_dissolved: to_crs(epsg=32636) when geographic, area_m2,
\* the minimum-area filter, buffer(0), the validity filter, simplify
CleanupCrs(crs) == IF IsGeographic(crs) THEN "utm" ELSE crs
Cleaned(cls, parts) ==
    {i \in 1..Len(parts) : parts[i].area >= MinArea(cls) /\ parts[i].valid}

\* step 6: gdf_dissolved = gdf.dissolve().reset_index(drop=True): the frame of
\* steps 3-5 is replaced by the dissolve of gdf, the polygons as traced, in
\* the CRS of the raster
Redissolved(cls, parts) == 1..Len(parts)
RedissolvedCrs(crs) == crs

VecNone == [state |-> "none", cleaned |-> {}, cleanedCrs |-> "", final |-> {},
            crs |-> "", areaCrs |-> "", outward |-> 0, inward |-> 0]

\* the extent written to results/lake_<year>.shp: the parts it is made of, the
\* two buffer distances, and the CRS in which geometry.area / 1e6 is computed
Vectorize(in) ==
    IF in.parts = <<>> THEN [VecNone EXCEPT !.state = "no water polygons"]
    ELSE [state |-> "written",
          cleaned |-> Cleaned(in.cls, in.parts),
          cleanedCrs |-> CleanupCrs(in.crs),
          final |-> Redissolved(in.cls, in.parts),
          crs |-> RedissolvedCrs(in.crs),
          areaCrs |-> RedissolvedCrs(in.crs),
          outward |-> OutwardBuffer,
          inward |-> InwardBuffer]

\* analyze_shoreline: growth_area.to_crs("EPSG:32636"), then growth_area.area
GrowthArea(in) == [VecNone EXCEPT !.state = "growth area", !.crs = in.crs, !.areaCrs = "utm"]

VecInit ==
    /\ gIn \in [cls : {"Mndwi", "ExtentAnalyzer"}, crs : CRSs,
                parts : UNION {[1..n -> Parts] : n \in 0..MaxParts}]
    /\ gOut = VecNone

VectorizeCall ==
    /\ gOut.state = "none"
    /\ gOut' = Vectorize(gIn)
    /\ UNCHANGED gIn

GrowthAreaCall ==
    /\ gOut.state = "none"
    /\ gIn.cls = "ExtentAnalyzer" /\ gIn.parts # <<>>
    /\ gOut' = GrowthArea(gIn)
    /\ UNCHANGED gIn

VecNext ==
    \/ (VectorizeCall /\ UNCHANGED <<predVars, maskVars, pixVars, alignVars, fetchVars, pipeVars>>)
    \/ (GrowthAreaCall /\ UNCHANGED <<predVars, maskVars, pixVars, alignVars, fetchVars, pipeVars>>)

InitVec == PredIdle /\ MaskIdle /\ PixIdle /\ AlignIdle /\ VecInit /\ FetchIdle /\ PipeIdle

SpecVec == InitVec /\ [][VecNext]_vars

(***************************************************************************)
(* C1: in the mask create_mask writes and in the array it hands to         *)
(* vectorization, a pixel is 1 iff it is not nodata and its index value is *)
(* above the threshold; a nodata pixel is 0 whatever value it stores.      *)
(***************************************************************************)
C1_MaskIffAboveThreshold ==
    mOut.state = "written" =>
        \A i \in 1..Len(mA.px) :
            LET water == ~IsMasked(mA.nodata, mA.px[i]) /\ Greater(mA.px[i], mT) IN
            /\ (mOut.mask_arr[i] = 1) <=> water
            /\ (mOut.raster[i] = 1) <=> water

(***************************************************************************)
(* C2: predict gives NaN to every pixel with an undefined value (NaN or    *)
(* nodata) in some feature plane and the model's class to every other      *)
(* pixel, in an output of the height and width of the stack.               *)
(***************************************************************************)
C2_Undefined(k) ==
    \E p \in 1..Len(pStack.planes) :
        LET x == pStack.planes[p].px[((k - 1) \div pStack.shape[2]) + 1][((k - 1) % pStack.shape[2]) + 1]
        IN x.nan \/ IsMasked(pStack.planes[p].nodata, x)

C2_UndefinedIsNaN ==
    pOut.state = "done" =>
        /\ Len(pOut.img) = pStack.shape[1]
        /\ \A r \in 1..pStack.shape[1] :
             /\ Len(pOut.img[r]) = pStack.shape[2]
             /\ \A c \in 1..pStack.shape[2] :
                  LET k == (r - 1) * pStack.shape[2] + c IN
                  IF C2_Undefined(k) THEN pOut.img[r][c] = NaN
                  ELSE pOut.img[r][c] = Num(Classify(pFitted.clf, Row(pStack.planes, pStack.shape, k)))

(***************************************************************************)
(* C3: the raster _coregister_raster writes has the CRS, the transform,    *)
(* the width and the height of the reference raster.                       *)
(***************************************************************************)
C3_OutputOnReferenceGrid ==
    aOut.state = "written" => aOut.grid = aRef

(***************************************************************************)
(* Vocabulary of the claims about _stack_features.                         *)
(***************************************************************************)
\* the directory as it was when the last call listed it
Before == last.dir \ Range(last.wrote)

\* the last step called _stack_features and its loop ran to the end
LoopDone == last.raised \in {"none", "ValueError: No features found"}

\* an aligned raster: a .tif whose base name ends with _aligned
IsAlignedRaster(f) == Info[f].tif /\ Info[f].aligned

\* the years of the 4-digit year range whose digits occur in the name of f
EmbeddedYears(f) ==
    {y \in YearLo..(YearHi - 1) : Contains(Splitext(Chars(f))[1], Str(y))}
EmbeddedCache == [f \in AllPaths |-> EmbeddedYears(f)]

\* the rasters the claims say the stack for this year holds
Qualifies(f, year) ==
    IsAlignedRaster(f) /\ (EmbeddedCache[f] = {} \/ year \in EmbeddedCache[f])

(***************************************************************************)
(* C4 as stated: over any sequence of _stack_features calls,               *)
(* _coregister_raster is invoked for a source raster only when its aligned *)
(* copy does not exist, at most once per source raster over the whole      *)
(* sequence, and an existing aligned copy is never rewritten.              *)
(***************************************************************************)
C4_OncePerSource ==
    [][ /\ \A i \in 1..Len(last'.invoked) :
              /\ Info[last'.invoked[i]].aligned_path \notin dir
              /\ last'.invoked[i] \notin invokedEver
        /\ \A i \in 1..Len(last'.wrote) : last'.wrote[i] \notin dir ]_vars

(***************************************************************************)
(* C4 as amended: _coregister_raster is invoked for a source raster only   *)
(* when its aligned copy does not exist, an aligned copy is written at     *)
(* most once and one that exists is never rewritten or removed; a source   *)
(* raster is handed to _coregister_raster a second time only when the      *)
(* earlier invocation raised before writing (the reference raster is       *)
(* missing).                                                               *)
(***************************************************************************)
C4_CacheNeverRewritten ==
    [][ /\ \A i \in 1..Len(last'.invoked) :
              /\ Info[last'.invoked[i]].aligned_path \notin dir
              /\ last'.invoked[i] \in invokedEver => CoregisterRaises(masks)
        /\ \A i \in 1..Len(last'.wrote) : last'.wrote[i] \notin dir
        /\ dir \subseteq dir' ]_vars

\* a second call found the aligned copies of the first and invoked nothing
C4_Witness ==
    /\ calls = 2
    /\ invokedEver # {}
    /\ last.raised = "none"
    /\ last.invoked = <<>>
    /\ \E f \in invokedEver : Info[f].aligned_path \in Range(last.stack)

(***************************************************************************)
(* C5: two _stack_features calls for the same year on the same directory   *)
(* contents return their planes in the same order.                         *)
(***************************************************************************)
C5_SameOrder ==
    [][ ( /\ calls' = calls + 1
          /\ last.raised = "none" /\ last'.raised = "none"
          /\ last'.year = last.year
          /\ last.wrote = <<>> /\ last'.wrote = <<>> )
        => last'.stack = last.stack ]_vars

(***************************************************************************)
(* C6: a call whose loop ran to the end holds an aligned raster of the     *)
(* directory in its stack iff the raster's name embeds no year or embeds   *)
(* the target year, and holds no raster twice.                             *)
(***************************************************************************)
C6_YearFilter ==
    LoopDone =>
        /\ \A f \in Before :
              IsAlignedRaster(f) => ((f \in Range(last.stack)) <=> Qualifies(f, last.year))
        /\ Range(last.stack) \subseteq {f \in Before : IsAlignedRaster(f)}
        /\ Cardinality(Range(last.stack)) = Len(last.stack)

\* a stack that holds the raster of the target year and leaves out another year's
C6_Witness ==
    /\ last.raised = "none"
    /\ \E f \in Range(last.stack) : EmbeddedCache[f] = {last.year}
    /\ \E f \in Before : IsAlignedRaster(f) /\ EmbeddedCache[f] # {} /\ f \notin Range(last.stack)

(***************************************************************************)
(* C7: when no raster qualifies for the year, _stack_features raises the   *)
(* "No features found" error naming the year; a stack it returns has at    *)
(* least one plane.                                                        *)
(***************************************************************************)
C7_NoEmptyStack ==
    /\ last.raised = "none" => Len(last.stack) >= 1
    /\ (LoopDone /\ ~ \E f \in Before : Qualifies(f, last.year))
          => (last.raised = "ValueError: No features found" /\ last.msgYear = last.year)

\* a directory with rasters of another year only
C7_Witness ==
    /\ last.raised = "ValueError: No features found"
    /\ last.msgYear = last.year
    /\ \E f \in Before : IsAlignedRaster(f)

(***************************************************************************)
(* C8: a training year whose label raster is absent never aborts train,    *)
(* whatever its feature rasters; and fit gets rows from exactly the years  *)
(* whose label raster exists.                                              *)
(***************************************************************************)
C8_AbsentLabelNeverAborts ==
    /\ ~ ( /\ res.op = "train" /\ res.raised # "none"
           /\ res.year # 0 /\ res.year \notin masks )
    /\ (res.op = "train" /\ res.fitCalled)
          => Range(model.fit) = {y \in Range(years) : y \in masks}

(***************************************************************************)
(* C9: when none of the years given to train has a label raster (the empty *)
(* list included), train raises and fit is not invoked.                    *)
(***************************************************************************)
C9_NoLabelsNoFit ==
    (res.op = "train" /\ \A i \in 1..Len(years) : years[i] \notin masks)
        => (res.raised # "none" /\ ~res.fitCalled)

\* every year was skipped with a warning, then np.vstack raised
C9_Witness ==
    /\ res.op = "train"
    /\ Len(years) >= 2
    /\ warned = Range(years)
    /\ res.raised = "ValueError: need at least one array"

(***************************************************************************)
(* C10: predict on a Predictor whose model was neither trained nor loaded  *)
(* ends in an error and writes no prediction raster.                       *)
(***************************************************************************)
C10_PredictNeedsModel ==
    (res.op = "predict" /\ model.state = "unfitted")
        => (res.raised # "none" /\ ~res.wrote)

\* predict after a train that raised: the stack was built, the model refused
C10_Witness ==
    /\ res.op = "predict"
    /\ calls = 2
    /\ years # <<>>
    /\ last.raised = "none"
    /\ res.raised = "NotFittedError"

(***************************************************************************)
(* C11: when no pixel of a year's index raster exceeds the threshold,      *)
(* create_mask completes without raising and reports "no water polygons    *)
(* found", and analyze_shoreline, run after it, takes that year as an      *)
(* empty extent: it does not fail on reading the year's extent and does    *)
(* not use the extent an earlier run left for that year.                   *)
(***************************************************************************)
C11_DryExtentYears == {y \in Range(ExtentYears) : y \in dry /\ y \in noWater}

C11_EmptyExtentIsValid ==
    /\ \A y \in dry :
          (\E i \in 1..Len(plog) : plog[i] = Event("threshold", y)) => y \in noWater
    /\ ~ ( /\ perr # "none" /\ Cur.op \in {"Mndwi.create_mask", "ExtentAnalyzer.create_mask"}
           /\ Cur.year \in dry /\ Cur.year \in index )
    /\ (ppc <= Len(Program(stage)) /\ Cur.op = "analyze_shoreline" /\ C11_DryExtentYears # {})
          => perr # "DataSourceError"
    /\ (\E i \in 1..Len(plog) : plog[i] = Event("analyze_shoreline", 0))
          => \A y \in C11_DryExtentYears : lake[y].state # "stale"

(***************************************************************************)
(* C12: the area_km2 create_mask stores and the growth-region area of      *)
(* analyze_shoreline are computed on geometry in a projected CRS, whatever *)
(* the CRS of the input raster.                                            *)
(***************************************************************************)
C12_AreaInProjectedCrs ==
    gOut.state \in {"written", "growth area"} => ~IsGeographic(gOut.areaCrs)

(***************************************************************************)
(* C13: a failure of an external call (catalog open or search, signing or  *)
(* loading, OSM download), whatever its kind, never leaves the stage: the  *)
(* year is logged as having no data and every remaining year is processed. *)
(***************************************************************************)
C13_ExternalFailuresCaught ==
    fOut.op # "none" =>
        /\ fOut.raised = "none"
        /\ fOut.op = "fetch_data" =>
              \A i \in 1..Len(FetchYears) :
                  IF fIn.search[i] = "ok" /\ fIn.load[i] = "ok"
                  THEN FetchYears[i] \in Range(fOut.downloaded)
                  ELSE FetchYears[i] \in Range(fOut.logged)

(***************************************************************************)
(* C14: in every run the stages occur in the order water-mask extraction   *)
(* (for all years, before the shoreline analysis), shoreline analysis,     *)
(* training, prediction; a call (one year's create_mask or fill_gaps, a    *)
(* stage) is completed before the next begins; and once a step has raised  *)
(* nothing runs any more.                                                  *)
(***************************************************************************)
C14_Rank(e) ==
    CASE e.ev \in {"threshold", "vectorize", "no water polygons",
                   "closing", "remove_small_objects", "opening"} -> 1
      [] e.ev = "analyze_shoreline" -> 2
      [] e.ev = "train" -> 3
      [] e.ev = "predict" -> 4
      [] OTHER -> 0

C14_Has(ev, year) == \E i \in 1..Len(plog) : plog[i] = Event(ev, year)

C14_Order ==
    /\ \A i, j \in 1..Len(plog) :
          (i < j /\ C14_Rank(plog[i]) > 0 /\ C14_Rank(plog[j]) > 0)
              => C14_Rank(plog[i]) <= C14_Rank(plog[j])
    /\ C14_Has("analyze_shoreline", 0) =>
          \A y \in (IF stage = "all" THEN AllYears ELSE Range(ExtentYears)) : C14_Has("threshold", y)
    /\ (stage = "all" /\ C14_Has("train", 0)) => C14_Has("analyze_shoreline", 0)
    /\ C14_Has("predict", PredictYear) => C14_Has("train", 0)
    /\ \A i \in 1..Len(plog) :
          plog[i].ev = "threshold" =>
              /\ i < Len(plog)
              /\ plog[i + 1] \in {Event("vectorize", plog[i].year), Event("no water polygons", plog[i].year)}

C14_StagesInOrder ==
    /\ []C14_Order
    /\ [][perr # "none" => (plog' = plog /\ ppc' = ppc)]_vars

\* a full run that reached the end, and a run that a raising shoreline analysis ended
C14_Witness ==
    /\ stage = "all"
    /\ \/ (perr = "none" /\ ppc > Len(RunFullPipeline) /\ C14_Has("predict", PredictYear))
       \/ (perr # "none" /\ Cur.op = "analyze_shoreline")

(***************************************************************************)
(* C15: the extent create_mask persists is made of the parts that steps    *)
(* 3-5 kept: a part below the minimum area, or invalid after repair, is    *)
(* not part of the persisted polygon.                                      *)
(***************************************************************************)
C15_ExtentFromCleanedParts ==
    gOut.state = "written" =>
        /\ gOut.final = gOut.cleaned
        /\ \A i \in 1..Len(gIn.parts) :
              (gIn.parts[i].area < MinArea(gIn.cls) \/ ~gIn.parts[i].valid) => i \notin gOut.final

(***************************************************************************)
(* C16: in the final smoothing step the inward buffer distance is the      *)
(* opposite of the outward one, so the net offset of the boundary is zero. *)
(***************************************************************************)
C16_BufferUnbufferNetZero ==
    gOut.state = "written" =>
        (gOut.outward > 0 /\ gOut.inward = -gOut.outward /\ gOut.outward + gOut.inward = 0)

(***************************************************************************)
(* C17: for a year that was gap-filled, the operations occurred in the     *)
(* order threshold, closing, removal of small components, opening,         *)
(* vectorization, and the year's lake_<year>.shp was traced from the       *)
(* gap-filled mask.                                                        *)
(***************************************************************************)
C17_Pos(ev, year) == {i \in 1..Len(plog) : plog[i] = Event(ev, year)}

C17_Before(A, B) == \A i \in A, j \in B : i < j

C17_VectorizedAfterGapFill ==
    \A y \in Range(GapYears) :
        maskf[y] = "filled" =>
            /\ C17_Pos("closing", y) # {}
            /\ C17_Before(C17_Pos("closing", y), C17_Pos("remove_small_objects", y))
            /\ C17_Before(C17_Pos("remove_small_objects", y), C17_Pos("opening", y))
            /\ \E i \in C17_Pos("threshold", y) : \A j \in C17_Pos("closing", y) : i < j
            /\ C17_Before(C17_Pos("opening", y), C17_Pos("vectorize", y))
            /\ lake[y].state = "written" => lake[y].from = "filled"

(***************************************************************************)
(* C18: a _stack_features call returns what a call on the same directory   *)
(* with all aligned copies in place returns: its stack holds every aligned *)
(* raster of the directory as the call leaves it that is static or matches *)
(* the year, those it aligned itself included, and it raises "No features  *)
(* found" only when there is none.                                         *)
(***************************************************************************)
C18_After == {f \in last.dir : Qualifies(f, last.year)}

C18_AlignedInSameCall ==
    LoopDone =>
        /\ last.raised = "none" => Range(last.stack) = C18_After
        /\ last.raised = "ValueError: No features found" => C18_After = {}

(***************************************************************************)
(* C19: the stack predict gets has the same number of planes, with the     *)
(* same feature at each position, as every stack the model was fitted on,  *)
(* and the stacks concatenated in one train agree with each other in the   *)
(* same way.  The feature of a raster is its name without the year.        *)
(***************************************************************************)
C19_YearAt(cs, p) ==
    /\ p + 3 <= Len(cs)
    /\ \E y \in YearLo..(YearHi - 1) : SubSeq(cs, p, p + 3) = Str(y)

C19_FeatureName(cs) ==
    IF \E p \in 1..Len(cs) : C19_YearAt(cs, p)
    THEN LET p == CHOOSE q \in 1..Len(cs) :
                      C19_YearAt(cs, q) /\ \A r \in 1..(q - 1) : ~C19_YearAt(cs, r)
         IN SubSeq(cs, 1, p - 1) \o SubSeq(cs, p + 4, Len(cs))
    ELSE cs

C19_Feature == [f \in AllPaths |-> C19_FeatureName(Chars(f))]

C19_SameFeatures(a, b) ==
    /\ Len(a) = Len(b)
    /\ \A k \in 1..Len(a) : C19_Feature[a[k]] = C19_Feature[b[k]]

C19_SameColumns ==
    /\ \A i, j \in 1..Len(XCols) : C19_SameFeatures(XCols[i], XCols[j])
    /\ (res.op = "predict" /\ last.raised = "none" /\ model.state = "fitted")
          => \A i \in 1..Len(fitCols) : C19_SameFeatures(last.stack, fitCols[i])

(***************************************************************************)
(* C20: a training year whose label raster has another number of *)
(* pixels than its stack contributes no rows to fit, the mismatch being    *)
(* detected before any row of the year is appended to X or y.              *)
(***************************************************************************)
C20_DetectedBeforeAppend ==
    /\ (res.op = "train" /\ res.fitCalled) => Range(model.fit) \cap badLabels = {}
    /\ Range(X) \cap badLabels = {}
    /\ Range(Y) \cap badLabels = {}

(***************************************************************************)
(* C21: a create_mask call on a year with no pixel above the threshold     *)
(* that reaches its polygon test (the mask raster is written before it)    *)
(* has written the mask raster, reports "no water polygons" and completes, *)
(* and no such call, completed or not, creates or modifies                 *)
(* results/lake_<year>.shp or the per-date polygon layer: the lake file of *)
(* the year is still the one an earlier run left (or still absent), and    *)
(* that is what analyze_shoreline then reads: it completes only on files   *)
(* that exist, the earlier run's for such a year, and raises on reading    *)
(* when one is absent.                                                     *)
(***************************************************************************)
C21_Ran(ev, year) == \E i \in 1..Len(plog) : plog[i] = Event(ev, year)

C21_AtStep(ops) == ppc <= Len(Program(stage)) /\ Cur.op \in ops

C21_Untouched ==
    /\ \A y \in dry :
          C21_Ran("threshold", y) =>
             /\ lake[y] \in {Stale, Absent}
             /\ y \in noWater
             /\ C21_Ran("no water polygons", y)
             /\ ~C21_Ran("vectorize", y)
             /\ (stage \in {"all", "process"} => maskf[y] \in {"thresholded", "filled"})
    /\ (C21_AtStep({"analyze_shoreline"}) /\ perr = "DataSourceError")
          => \E y \in Range(ExtentYears) : lake[y] = Absent
    /\ C21_Ran("analyze_shoreline", 0)
          => \A y \in Range(ExtentYears) :
                /\ lake[y].state # "absent"
                /\ y \in dry => lake[y] = Stale

\* a create_mask call on a year with no pixel above the threshold
C21_DryStep ==
    /\ perr = "none"
    /\ C21_AtStep({"Mndwi.create_mask", "ExtentAnalyzer.create_mask"})
    /\ Cur.year \in dry

C21_NoWaterLeavesLakeFile ==
    /\ []C21_Untouched
    /\ [][C21_DryStep => lake' = lake]_vars
    /\ [][(C21_DryStep /\ perr' = "none")
            => /\ ppc' = ppc + 1
               /\ plog' = plog \o <<Event("threshold", Cur.year),
                                     Event("no water polygons", Cur.year)>>
               /\ noWater' = noWater \cup {Cur.year}
               /\ (Cur.op = "Mndwi.create_mask" => maskf'[Cur.year] = "thresholded")]_vars
    /\ [][(perr = "none" /\ C21_AtStep({"analyze_shoreline"})) => lake' = lake]_vars

C21_Witness ==
    /\ C21_Ran("analyze_shoreline", 0)
    /\ \E y \in Range(ExtentYears) :
          /\ y \in dry /\ y \in noWater /\ lake[y] = Stale
          /\ C21_Ran("threshold", y)
    /\ \E y \in Range(ExtentYears) : lake[y].state = "written"

(***************************************************************************)
(* C22: from the entry of train until it returns or raises, the model      *)
(* changes only in the step that calls fit; a train that raises has not    *)
(* called fit and leaves the model, and the saved artifact, as they were   *)
(* when train was entered.  In run_prediction save_model runs only after   *)
(* train and then predict have completed: a run that raised has written    *)
(* no model artifact, and an artifact that was written holds the model     *)
(* train fitted.                                                           *)
(***************************************************************************)
C22_At(ev) == {i \in 1..Len(plog) : plog[i].ev = ev}

C22_TrainRaised == res.op = "train" /\ res.raised # "none"

C22_RunState ==
    /\ C22_TrainRaised => (~res.fitCalled /\ pc = "idle")
    /\ stage = "predict" =>
          /\ (perr # "none" => (C22_At("save_model") = {} /\ saved = NoModel))
          /\ (C22_TrainRaised => (perr = res.raised /\ model = Unfitted /\ plog = <<>>))
          /\ (C22_At("save_model") # {} =>
                \E i \in C22_At("train"), j \in C22_At("predict") :
                    i < j /\ \A k \in C22_At("save_model") : j < k)
          /\ (saved # NoModel =>
                (C22_At("save_model") # {} /\ saved = model /\ model.state = "fitted"))

C22_ModelKept == model' = model /\ nfeat' = nfeat /\ fitCols' = fitCols /\ saved' = saved

C22_AllOrNothing ==
    /\ []C22_RunState
    /\ [][(pc' = "train" \/ (pc = "train" /\ res'.raised # "none")) => C22_ModelKept]_vars
    /\ [][(pc = "train" /\ model' # model) => (res'.fitCalled /\ res'.raised = "none")]_vars

\* a run whose second labelled year raised after the rows of the first were assembled
C22_Witness ==
    /\ stage = "predict" /\ perr = "IndexError"
    /\ C22_TrainRaised
    /\ Len(X) = 2 /\ Len(Y) = 1
    /\ saved = NoModel /\ model = Unfitted

====
